---- MODULE Spec2Model ----
(***************************************************************************)
(* Model of the Blue+Me messaging backend: the flat-file record store      *)
(* (users.json, contacts.json, messages.json), the credential check, and   *)
(* the HTTP route handlers built on them.  Strings that the code inspects  *)
(* character by character (phones, names, message contents) are sequences  *)
(* of one-character strings.                                               *)
(***************************************************************************)
EXTENDS Integers, Sequences, FiniteSets, TLC

\* ------------------------------------------------------------------ bounds
MaxUsers == 2
MaxMsgs == 1
MaxPending == 1
MaxConvMsgs == 2
MaxStoreMsgs == 2
MaxTime == 12

\* ------------------------------------------------------- program constants
MinPhoneDigits == 10
MaxPhoneDigits == 15

\* --------------------------------------------------------------- characters
Digits == {"0", "1", "2", "3", "4", "5", "6", "7", "8", "9"}
Whitespace == {" ", "\t"}

\* /\s+/g with '' as replacement: scanning left to right, every maximal run of
\* whitespace is matched and dropped, every other character is kept.
RECURSIVE WsRunEnd(_, _)
WsRunEnd(s, i) ==
    IF i <= Len(s) /\ s[i] \in Whitespace THEN WsRunEnd(s, i + 1) ELSE i

RECURSIVE ReplaceAllWsFrom(_, _)
ReplaceAllWsFrom(s, i) ==
    IF i > Len(s) THEN <<>>
    ELSE IF s[i] \in Whitespace THEN ReplaceAllWsFrom(s, WsRunEnd(s, i))
    ELSE <<s[i]>> \o ReplaceAllWsFrom(s, i + 1)

\* phone.replace(/\s+/g, '')
NormalizePhone(phone) == ReplaceAllWsFrom(phone, 1)

\* /^\d{10,15}$/.test(s)
PhoneRegexTest(s) ==
    /\ Len(s) >= MinPhoneDigits
    /\ Len(s) <= MaxPhoneDigits
    /\ \A i \in 1..Len(s) : s[i] \in Digits

\* String.prototype.trim
RECURSIVE TrimStart(_)
TrimStart(s) ==
    IF s # <<>> /\ Head(s) \in Whitespace THEN TrimStart(Tail(s)) ELSE s

RECURSIVE TrimEnd(_)
TrimEnd(s) ==
    IF s # <<>> /\ s[Len(s)] \in Whitespace
    THEN TrimEnd(SubSeq(s, 1, Len(s) - 1)) ELSE s

Trim(s) == TrimEnd(TrimStart(s))

\* JavaScript truthiness of a string: the empty string is falsy.
Truthy(s) == s # <<>>

\* ------------------------------------------------------------------- inputs
PhoneA == <<"1", "2", "3", "4", "5", "6", "7", "8", "9", "0">>
PhoneASpaced == <<"1", "2", "3", " ", "4", "5", "6", " ", "\t", "7", "8", "9", "0">>
PhoneB == <<"5", "5", "5", "9", "8", "7", "6", "5", "4", "3">>
PhoneC == <<"4", "4", "4", "1", "1", "1", "2", "2", "2", "2", "3">>
PhoneShort == <<"1", "2", "3", " ", "4">>
PhoneD == <<"7", "7", "7", " ", "0", "0", "0", "1", "1", "1", "1">>
PhoneInputs == {<<>>, PhoneA, PhoneASpaced, PhoneB, PhoneShort}

PasswordInputs == {<<>>, <<"p">>, <<"q">>}

NameAl == <<"A", "l">>
NameBo == <<"B", "o", " ">>
NameInputs == {<<>>, NameBo}

ContentInputs == {<<>>, <<" ", "\t">>, <<" ", "h", "i", "\t">>}

NoSession == 0

\* Request parameters that name a user: 0 is an absent (falsy) parameter and
\* MaxUsers + 1 is the id of no user.
IdInputs == 0..(MaxUsers + 1)

\* -------------------------------------------------------------------- state
VARIABLES
    users,      \* users.json: sequence of user records
    contacts,   \* contacts.json: owner id -> sequence of contact records
    messages,   \* messages.json: sequence of message records
    ids,        \* ids issued so far (Date.now() + random suffix: always fresh)
    now,        \* the server clock, in minutes
    sessions,   \* user ids for which login has issued a session token
    pending,    \* register requests suspended in bcrypt.hash
    lastReq,    \* the request handled by the last step
    resp,       \* its response
    unwritable, \* the backing files on which writeFileSync throws
    unreadable, \* the backing files whose load fails (readFileSync or JSON.parse throws)
    client      \* the chat view in the browser of one signed-in user

vars ==
    <<users, contacts, messages, ids, now, sessions, pending, lastReq, resp, unwritable,
      unreadable, client>>
stores == <<users, contacts, messages>>

\* What the chat view did last, where it was the callback of a timer (with what
\* it asked for) or a click on a contact (with the contact selected before).
Event(kind, contactId, userIds) ==
    [kind |-> kind, contactId |-> contactId, userIds |-> userIds]

\* The chat view before it is mounted: the initial values of its useState and
\* useRef hooks, no timer set, no fetch called or awaited. selectedContact is the
\* id of the selected contact, 0 for null.
NoClient ==
    [mounted |-> FALSE, session |-> 0, contacts |-> <<>>, selectedContact |-> 0,
     messages |-> <<>>, timers |-> {}, pollIntervalRef |-> 0, statusIntervalRef |-> 0,
     heartbeatIntervalRef |-> 0, calls |-> <<>>, inFlight |-> <<>>,
     event |-> Event("none", 0, <<>>)]

\* An absent optional timestamp (updatedAt, lastSeen).
NoTime == -1

\* 5 * 60 * 1000 ms, in minutes.
OFFLINE_THRESHOLD == 5

\* The clock starts long after the epoch (time 0).
StartTime == OFFLINE_THRESHOLD + 1

\* ------------------------------------------------------------ record store
\* getUsers, getContacts, getMessages: the parsed file, or the empty default when
\* the load throws.
getUsers == IF "users" \in unreadable THEN <<>> ELSE users

getContacts == IF "contacts" \in unreadable THEN <<>> ELSE contacts

getMessages == IF "messages" \in unreadable THEN <<>> ELSE messages

\* Array.prototype.findIndex with the test u[field] === value: 1-based, 0 when
\* nothing matches.
RECURSIVE FindIndexFrom(_, _, _, _)
FindIndexFrom(seq, field, value, i) ==
    IF i > Len(seq) THEN 0
    ELSE IF seq[i][field] = value THEN i
    ELSE FindIndexFrom(seq, field, value, i + 1)

\* Array.prototype.find: <<>> for undefined, <<x>> for the first match.
Find(seq, field, value) ==
    LET i == FindIndexFrom(seq, field, value, 1)
    IN  IF i = 0 THEN <<>> ELSE <<seq[i]>>

getUserByPhone(us, phone) == Find(us, "phone", phone)

getUserById(us, id) == Find(us, "id", id)

\* The record createUser builds and pushes.
NewUser(id, phone, password, name, t) ==
    [id |-> id, phone |-> phone, password |-> password, name |-> name,
     status |-> "", profilePicture |-> "", createdAt |-> t,
     updatedAt |-> NoTime, lastSeen |-> NoTime]

createUserOverwrite(us, newUser) == <<newUser>>

createUser(us, newUser) == Append(us, newUser)

\* { ...user, ...updates }: the fields of updates replace those of user.
Spread(user, updates) ==
    [f \in DOMAIN user |-> IF f \in DOMAIN updates THEN updates[f] ELSE user[f]]

updateUserEveryRecord(us, userId, updates, t) ==
    [i \in 1..Len(us) |-> [Spread(us[i], updates) EXCEPT !.updatedAt = t]]

\* updateUser: the record at the first index with that id is replaced by itself
\* overlaid with the updates and a new updatedAt; an unknown id leaves the
\* collection as loaded.
updateUser(us, userId, updates, t) ==
    LET userIndex == FindIndexFrom(us, "id", userId, 1)
    IN  IF userIndex = 0 THEN us
        ELSE [us EXCEPT ![userIndex] =
                [Spread(us[userIndex], updates) EXCEPT !.updatedAt = t]]

getUserContacts(cs, userId) ==
    IF userId \in DOMAIN cs THEN cs[userId] ELSE <<>>

hasContactNever(list, contactId) == FALSE

hasContact(list, contactId) ==
    \E i \in 1..Len(list) : list[i].contactId = contactId

addContactAlways(cs, userId, contactId, t) ==
    [k \in DOMAIN cs \cup {userId} |->
        IF k = userId
        THEN Append(getUserContacts(cs, userId),
                    [userId |-> userId, contactId |-> contactId, addedAt |-> t])
        ELSE cs[k]]

addContact(cs, userId, contactId, t) ==
    LET list == getUserContacts(cs, userId)
        edge == [userId |-> userId, contactId |-> contactId, addedAt |-> t]
    IN  IF hasContact(list, contactId) THEN cs
        ELSE [k \in DOMAIN cs \cup {userId} |->
                IF k = userId THEN Append(list, edge) ELSE cs[k]]

\* Array.prototype.sort with the comparator a.timestamp - b.timestamp: a stable
\* sort, as an insertion sort that places each element after its equals.
RECURSIVE InsertByTimestamp(_, _)
InsertByTimestamp(sorted, m) ==
    IF sorted = <<>> THEN <<m>>
    ELSE IF sorted[Len(sorted)].timestamp - m.timestamp <= 0 THEN Append(sorted, m)
    ELSE Append(InsertByTimestamp(SubSeq(sorted, 1, Len(sorted) - 1), m),
                sorted[Len(sorted)])

RECURSIVE SortByTimestampFrom(_, _, _)
SortByTimestampFrom(seq, i, acc) ==
    IF i > Len(seq) THEN acc
    ELSE SortByTimestampFrom(seq, i + 1, InsertByTimestamp(acc, seq[i]))

SortByTimestamp(seq) == SortByTimestampFrom(seq, 1, <<>>)

InConversationOneWay(m, userId1, userId2) ==
    m.senderId = userId1 /\ m.receiverId = userId2

InConversation(m, userId1, userId2) ==
    \/ (m.senderId = userId1 /\ m.receiverId = userId2)
    \/ (m.senderId = userId2 /\ m.receiverId = userId1)

getConversationMessages(ms, userId1, userId2) ==
    LET keep(m) == InConversation(m, userId1, userId2)
    IN  SortByTimestamp(SelectSeq(ms, keep))

NewMessageRead(id, senderId, receiverId, content, t) ==
    [id |-> id, senderId |-> senderId, receiverId |-> receiverId,
     content |-> content, timestamp |-> t, read |-> TRUE]

NewMessage(id, senderId, receiverId, content, t) ==
    [id |-> id, senderId |-> senderId, receiverId |-> receiverId,
     content |-> content, timestamp |-> t, read |-> FALSE]

createMessageOverwrite(ms, newMessage) == <<newMessage>>

createMessage(ms, newMessage) == Append(ms, newMessage)

MarkOneBothWays(m, userId, otherUserId) ==
    IF InConversation(m, userId, otherUserId) /\ ~m.read
    THEN [m EXCEPT !.read = TRUE] ELSE m

MarkOne(m, userId, otherUserId) ==
    IF m.senderId = otherUserId /\ m.receiverId = userId /\ ~m.read
    THEN [m EXCEPT !.read = TRUE] ELSE m

markMessagesAsRead(ms, userId, otherUserId) ==
    [i \in 1..Len(ms) |-> MarkOne(ms[i], userId, otherUserId)]

WriteFileAnyway(file, stored, value) == value

\* try { fs.writeFileSync(FILE, JSON.stringify(value)) } catch { log }: the file
\* holds the new value, or what it held when the write throws.
WriteFile(file, stored, value) ==
    IF file \in unwritable THEN stored ELSE value

\* ------------------------------------------------------------- credentials
\* bcrypt.hash: the stored hash determines the password it was made from and is
\* never the empty string.
Hash(password) == <<"$2a$10$">> \o password

CompareAlwaysTrue(password, stored) == TRUE

CompareAcceptsEmptyHash(password, stored) ==
    stored = <<>> \/ (Head(stored) = "$2a$10$" /\ Tail(stored) = password)

\* bcrypt.compare: false for a string that is no bcrypt hash (the empty one).
Compare(password, stored) ==
    stored # <<>> /\ Head(stored) = "$2a$10$" /\ Tail(stored) = password

\* const { password: _, ...userWithoutPassword } = user
WithoutPassword(u) == [f \in DOMAIN u \ {"password"} |-> u[f]]

\* ---------------------------------------------------------------- requests
\* A route handler states what becomes of the server's variables; the chat view
\* (client) is left to the caller of the route.
Init ==
    /\ users = <<>>
    /\ contacts = <<>>
    /\ messages = <<>>
    /\ ids = [user |-> 0, msg |-> 0]
    /\ now = StartTime
    /\ sessions = {}
    /\ pending = <<>>
    /\ unwritable = {}
    /\ unreadable = {}
    /\ client = NoClient
    /\ lastReq = [op |-> "none", session |-> NoSession]
    /\ resp = [status |-> 0, error |-> "", body |-> <<>>]

Reply(req, status, error, body) ==
    /\ lastReq' = req
    /\ resp' = [status |-> status, error |-> error, body |-> body]

HasUserIdAlways(s) == TRUE

\* session?.user?.id is truthy
HasUserId(s) == s # NoSession

Unauthorized(req) == Reply(req, 401, "Unauthorized", <<>>)

\* The sessions a request can carry: none, or a token issued by a login.
SessionInputs == sessions \cup {NoSession}

\* ------------------------------------------------------ POST /auth/register
RegisterRequest(phone, password, name) ==
    [op |-> "register", session |-> NoSession, phone |-> phone,
     password |-> password, name |-> name]

\* The checks of register up to and including the existence check: the error
\* of the 400 response, "" when all pass.
RegisterErrorNoDuplicateCheck(us, req) ==
    IF ~Truthy(req.phone) \/ ~Truthy(req.password) \/ ~Truthy(req.name)
    THEN "Phone number, password, and name are required"
    ELSE IF ~PhoneRegexTest(NormalizePhone(req.phone))
    THEN "Invalid phone number format. Please enter 10-15 digits."
    ELSE ""

RegisterError(us, req) ==
    IF ~Truthy(req.phone) \/ ~Truthy(req.password) \/ ~Truthy(req.name)
    THEN "Phone number, password, and name are required"
    ELSE IF ~PhoneRegexTest(NormalizePhone(req.phone))
    THEN "Invalid phone number format. Please enter 10-15 digits."
    ELSE IF getUserByPhone(us, NormalizePhone(req.phone)) # <<>>
    THEN "User with this phone number already exists"
    ELSE ""

\* The part of register after bcrypt.hash resolves: createUser and the 201.
RegisterCreate(req) ==
    LET newUser == NewUser(ids.user + 1, NormalizePhone(req.phone),
                           Hash(req.password), req.name, now)
    IN  /\ users' = WriteFile("users", users, createUser(getUsers, newUser))
        /\ ids' = [ids EXCEPT !.user = @ + 1]
        /\ Reply(req, 201, "", <<WithoutPassword(newUser)>>)

\* One register request handled without interleaving.
Register(phone, password, name) ==
    LET req == RegisterRequest(phone, password, name)
        error == RegisterError(getUsers, req)
    IN  /\ IF error # ""
           THEN Reply(req, 400, error, <<>>) /\ UNCHANGED <<users, ids>>
           ELSE RegisterCreate(req)
        /\ UNCHANGED <<contacts, messages, now, sessions, pending, unwritable, unreadable>>

\* ------------------------------------------------- credentials sign-in
AuthorizeRawPhone(us, phone, password) ==
    IF ~Truthy(phone) \/ ~Truthy(password) THEN <<>>
    ELSE LET user == getUserByPhone(us, phone)
         IN  IF user = <<>> THEN <<>>
             ELSE IF ~Compare(password, user[1].password) THEN <<>>
             ELSE <<[id |-> user[1].id, phone |-> user[1].phone,
                     name |-> user[1].name]>>

\* authorize: <<>> for null, <<identity>> on success.
Authorize(us, phone, password) ==
    IF ~Truthy(phone) \/ ~Truthy(password) THEN <<>>
    ELSE LET user == getUserByPhone(us, NormalizePhone(phone))
         IN  IF user = <<>> THEN <<>>
             ELSE IF ~Compare(password, user[1].password) THEN <<>>
             ELSE <<[id |-> user[1].id, phone |-> user[1].phone,
                     name |-> user[1].name]>>

Login(phone, password) ==
    LET req == [op |-> "login", session |-> NoSession, phone |-> phone,
                password |-> password]
        identity == Authorize(getUsers, phone, password)
    IN  /\ IF identity = <<>>
           THEN Reply(req, 401, "CredentialsSignin", <<>>) /\ UNCHANGED sessions
           ELSE /\ Reply(req, 200, "", identity)
                /\ sessions' = sessions \cup {identity[1].id}
        /\ UNCHANGED <<users, contacts, messages, ids, now, pending, unwritable, unreadable>>

\* ----------------------------------------------------------- GET /messages
GetMessagesAfterMark(s, otherUserId) ==
    LET req == [op |-> "getMessages", session |-> s, userId |-> otherUserId]
    IN  /\ IF ~HasUserId(s) THEN Unauthorized(req) /\ UNCHANGED messages
           ELSE IF otherUserId = 0
           THEN Reply(req, 400, "User ID is required", <<>>) /\ UNCHANGED messages
           ELSE /\ messages' = WriteFile("messages", messages,
                                       markMessagesAsRead(getMessages, s, otherUserId))
                /\ Reply(req, 200, "",
                         getConversationMessages(
                             markMessagesAsRead(getMessages, s, otherUserId), s, otherUserId))
        /\ UNCHANGED <<users, contacts, ids, now, sessions, pending, unwritable, unreadable>>

GetMessages(s, otherUserId) ==
    LET req == [op |-> "getMessages", session |-> s, userId |-> otherUserId]
    IN  /\ IF ~HasUserId(s) THEN Unauthorized(req) /\ UNCHANGED messages
           ELSE IF otherUserId = 0
           THEN Reply(req, 400, "User ID is required", <<>>) /\ UNCHANGED messages
           ELSE /\ messages' = WriteFile("messages", messages,
                                       markMessagesAsRead(getMessages, s, otherUserId))
                /\ Reply(req, 200, "", getConversationMessages(getMessages, s, otherUserId))
        /\ UNCHANGED <<users, contacts, ids, now, sessions, pending, unwritable, unreadable>>

\* ---------------------------------------------------------- POST /messages
\* !receiverId || !content
SendRejects(receiverId, content) ==
    receiverId = 0 \/ ~Truthy(content)

SendMessage(s, receiverId, content) ==
    LET req == [op |-> "sendMessage", session |-> s, receiverId |-> receiverId,
                content |-> content]
        newMessage == NewMessage(ids.msg + 1, s, receiverId, Trim(content), now)
    IN  /\ IF ~HasUserId(s) THEN Unauthorized(req) /\ UNCHANGED <<messages, ids>>
           ELSE IF SendRejects(receiverId, content)
           THEN /\ Reply(req, 400, "Receiver ID and content are required", <<>>)
                /\ UNCHANGED <<messages, ids>>
           ELSE /\ messages' = WriteFile("messages", messages,
                                       createMessage(getMessages, newMessage))
                /\ ids' = [ids EXCEPT !.msg = @ + 1]
                /\ Reply(req, 201, "", <<newMessage>>)
        /\ UNCHANGED <<users, contacts, now, sessions, pending, unwritable, unreadable>>

\* ----------------------------------------------------------- GET /contacts
\* (now - lastSeen) < OFFLINE_THRESHOLD, an absent lastSeen counting as time 0
IsOnlineInclusive(lastSeen, t) ==
    (t - (IF lastSeen # NoTime THEN lastSeen ELSE 0)) <= OFFLINE_THRESHOLD

IsOnline(lastSeen, t) ==
    (t - (IF lastSeen # NoTime THEN lastSeen ELSE 0)) < OFFLINE_THRESHOLD

\* One element of contactsWithUserData: <<>> for the null that is filtered out.
ContactWithUserData(us, contact, t) ==
    LET user == getUserById(us, contact.contactId)
    IN  IF user = <<>> THEN <<>>
        ELSE <<[id |-> user[1].id, name |-> user[1].name, phone |-> user[1].phone,
                status |-> user[1].status,
                profilePicture |-> user[1].profilePicture,
                addedAt |-> contact.addedAt,
                isOnline |-> IsOnline(user[1].lastSeen, t),
                lastSeen |-> user[1].lastSeen]>>

RECURSIVE ContactsWithUserDataFrom(_, _, _, _)
ContactsWithUserDataFrom(us, list, t, i) ==
    IF i > Len(list) THEN <<>>
    ELSE ContactWithUserData(us, list[i], t)
         \o ContactsWithUserDataFrom(us, list, t, i + 1)

ListContacts(s) ==
    LET req == [op |-> "listContacts", session |-> s]
    IN  /\ IF ~HasUserId(s) THEN Unauthorized(req)
           ELSE Reply(req, 200, "",
                      ContactsWithUserDataFrom(getUsers, getUserContacts(getContacts, s),
                                               now, 1))
        /\ UNCHANGED <<users, contacts, messages, ids, now, sessions, pending, unwritable,
                       unreadable>>

\* ---------------------------------------------------------- POST /contacts
\* The branch taken for a body {contactId}.
AddContactById(s, req) ==
    LET contactUser == getUserById(getUsers, req.contactId)
    IN  IF contactUser = <<>>
        THEN Reply(req, 404, "User not found", <<>>) /\ UNCHANGED contacts
        ELSE IF req.contactId = s
        THEN /\ Reply(req, 400, "Cannot add yourself as a contact", <<>>)
             /\ UNCHANGED contacts
        ELSE /\ contacts' = WriteFile("contacts", contacts,
                                   addContact(getContacts, s, req.contactId, now))
             /\ Reply(req, 201, "", contactUser)

\* The branch taken for a body {phone, name}.
AddContactByPhone(s, req) ==
    LET normalizedPhone == NormalizePhone(req.phone)
        found == getUserByPhone(getUsers, normalizedPhone)
        created == NewUser(ids.user + 1, normalizedPhone, <<>>, Trim(req.name), now)
        contactUser == IF found = <<>> THEN created ELSE found[1]
        alreadyAdded == hasContact(getUserContacts(getContacts, s), contactUser.id)
    IN  IF ~PhoneRegexTest(normalizedPhone)
        THEN /\ Reply(req, 400, "Invalid phone number format. Please enter 10-15 digits.", <<>>)
             /\ UNCHANGED <<users, contacts, ids>>
        ELSE /\ IF found = <<>>
                THEN /\ users' = WriteFile("users", users, createUser(getUsers, created))
                     /\ ids' = [ids EXCEPT !.user = @ + 1]
                ELSE UNCHANGED <<users, ids>>
             /\ IF contactUser.id = s
                THEN /\ Reply(req, 400, "Cannot add yourself as a contact", <<>>)
                     /\ UNCHANGED contacts
                ELSE IF alreadyAdded
                THEN /\ Reply(req, 400, "This contact is already in your contact list", <<>>)
                     /\ UNCHANGED contacts
                ELSE /\ contacts' = WriteFile("contacts", contacts,
                                           addContact(getContacts, s, contactUser.id, now))
                     /\ Reply(req, 201, "", <<WithoutPassword(contactUser)>>)

AddContact(s, contactId, phone, name) ==
    LET req == [op |-> "addContact", session |-> s, contactId |-> contactId,
                phone |-> phone, name |-> name]
    IN  /\ IF ~HasUserId(s)
           THEN Unauthorized(req) /\ UNCHANGED <<users, contacts, ids>>
           ELSE IF contactId # 0
           THEN AddContactById(s, req) /\ UNCHANGED <<users, ids>>
           ELSE IF Truthy(phone) /\ Truthy(name)
           THEN AddContactByPhone(s, req)
           ELSE /\ Reply(req, 400, "Either contactId or phone and name are required", <<>>)
                /\ UNCHANGED <<users, contacts, ids>>
        /\ UNCHANGED <<messages, now, sessions, pending, unwritable, unreadable>>

\* The bodies a client sends: {contactId}, or {phone, name}.
AddContactBodies ==
    { <<c, <<>>, <<>> >> : c \in IdInputs \ {0} }
    \cup { <<0, p, n>> : p \in PhoneInputs, n \in NameInputs }

\* ------------------------------------------------------- GET /users/search
\* String.prototype.toLowerCase on the letters the inputs use.
LowerChar(c) ==
    CASE c = "A" -> "a"
      [] c = "B" -> "b"
      [] c = "L" -> "l"
      [] c = "O" -> "o"
      [] OTHER -> c

ToLowerCase(str) == [i \in 1..Len(str) |-> LowerChar(str[i])]

\* String.prototype.includes
Includes(str, part) ==
    \E i \in 0..(Len(str) - Len(part)) : SubSeq(str, i + 1, i + Len(part)) = part

SearchMatchesContactsToo(user, s, contactList, query) ==
    /\ user.id # s
    /\ \/ Includes(ToLowerCase(user.name), ToLowerCase(query))
       \/ Includes(user.phone, NormalizePhone(query))

SearchMatches(user, s, contactList, query) ==
    /\ user.id # s
    /\ ~hasContact(contactList, user.id)
    /\ \/ Includes(ToLowerCase(user.name), ToLowerCase(query))
       \/ Includes(user.phone, NormalizePhone(query))

RECURSIVE SearchResultsFrom(_, _, _, _, _)
SearchResultsFrom(us, s, contactList, query, i) ==
    IF i > Len(us) THEN <<>>
    ELSE (IF SearchMatches(us[i], s, contactList, query)
          THEN <<[id |-> us[i].id, name |-> us[i].name, phone |-> us[i].phone]>>
          ELSE <<>>)
         \o SearchResultsFrom(us, s, contactList, query, i + 1)

SearchUsers(s, query) ==
    LET req == [op |-> "searchUsers", session |-> s, q |-> query]
    IN  /\ IF ~HasUserId(s) THEN Unauthorized(req)
           ELSE Reply(req, 200, "",
                      SearchResultsFrom(getUsers, s, getUserContacts(getContacts, s),
                                        query, 1))
        /\ UNCHANGED <<users, contacts, messages, ids, now, sessions, pending, unwritable,
                       unreadable>>

\* ----------------------------------------------------------- GET /users/:id
GetUserById(s, id) ==
    LET req == [op |-> "getUserById", session |-> s, id |-> id]
        user == getUserById(getUsers, id)
    IN  /\ IF ~HasUserId(s) THEN Unauthorized(req)
           ELSE IF user = <<>> THEN Reply(req, 404, "User not found", <<>>)
           ELSE Reply(req, 200, "", <<WithoutPassword(user[1])>>)
        /\ UNCHANGED <<users, contacts, messages, ids, now, sessions, pending, unwritable,
                       unreadable>>

\* ------------------------------------------------------- POST /users/status
Heartbeat(s) ==
    LET req == [op |-> "heartbeat", session |-> s]
    IN  /\ IF ~HasUserId(s) THEN Unauthorized(req) /\ UNCHANGED users
           ELSE /\ users' = IF getUserById(getUsers, s) = <<>> THEN users
                            ELSE WriteFile("users", users,
                                           updateUser(getUsers, s, [lastSeen |-> now], now))
                /\ Reply(req, 200, "", <<[success |-> TRUE]>>)
        /\ UNCHANGED <<contacts, messages, ids, now, sessions, pending, unwritable,
                       unreadable>>

\* -------------------------------------------------------- GET /users/status
\* statusMap: an entry for each requested id that is the id of a user.
StatusMap(us, userIds, t) ==
    LET asked == {userIds[i] : i \in 1..Len(userIds)}
        known == {id \in asked : getUserById(us, id) # <<>>}
    IN  [id \in known |->
            LET user == getUserById(us, id)[1]
            IN  [isOnline |-> IsOnline(user.lastSeen, t),
                 lastSeen |-> user.lastSeen]]

StatusQuery(s, userIds) ==
    LET req == [op |-> "statusQuery", session |-> s, userIds |-> userIds]
    IN  /\ IF ~HasUserId(s) THEN Unauthorized(req)
           ELSE Reply(req, 200, "", <<StatusMap(getUsers, userIds, now)>>)
        /\ UNCHANGED <<users, contacts, messages, ids, now, sessions, pending, unwritable,
                       unreadable>>

\* ------------------------------------------------------------- GET /profile
GetProfile(s) ==
    LET req == [op |-> "getProfile", session |-> s]
        user == getUserById(getUsers, s)
    IN  /\ IF ~HasUserId(s) THEN Unauthorized(req)
           ELSE IF user = <<>> THEN Reply(req, 404, "User not found", <<>>)
           ELSE Reply(req, 200, "", <<WithoutPassword(user[1])>>)
        /\ UNCHANGED <<users, contacts, messages, ids, now, sessions, pending, unwritable,
                       unreadable>>

\* ------------------------------------------------------------- PUT /profile
\* A field of the body is <<>> when undefined and <<value>> when supplied.
UpdateProfile(s, name, status, profilePicture) ==
    LET req == [op |-> "updateProfile", session |-> s, name |-> name,
                status |-> status, profilePicture |-> profilePicture]
        body == [name |-> name, status |-> status, profilePicture |-> profilePicture]
        updates == [f \in {g \in DOMAIN body : body[g] # <<>>} |-> body[f][1]]
        updated == getUserById(updateUser(getUsers, s, updates, now), s)
    IN  /\ IF ~HasUserId(s) THEN Unauthorized(req) /\ UNCHANGED users
           ELSE IF getUserById(getUsers, s) = <<>>
           THEN Reply(req, 404, "User not found", <<>>) /\ UNCHANGED users
           ELSE /\ users' = WriteFile("users", users, updateUser(getUsers, s, updates, now))
                /\ Reply(req, 200, "", <<WithoutPassword(updated[1])>>)
        /\ UNCHANGED <<contacts, messages, ids, now, sessions, pending, unwritable,
                       unreadable>>

\* ------------------------------------------- POST /upload/profile-picture
FileInputs == {"none", "text/plain", "image/too-big", "image/png"}

UploadPicture(s, file) ==
    LET req == [op |-> "uploadPicture", session |-> s, file |-> file]
    IN  /\ IF ~HasUserId(s) THEN Unauthorized(req)
           ELSE IF file = "none" THEN Reply(req, 400, "No file provided", <<>>)
           ELSE IF file = "text/plain"
           THEN Reply(req, 400, "File must be an image", <<>>)
           ELSE IF file = "image/too-big"
           THEN Reply(req, 400, "File size must be less than 5MB", <<>>)
           ELSE Reply(req, 200, "", <<[url |-> <<s, now>>]>>)
        /\ UNCHANGED <<users, contacts, messages, ids, now, sessions, pending, unwritable,
                       unreadable>>

\* ------------------------------------------------ the API, one request at a time
\* Every route, with few inputs per route; the collections are capped.
Capped == Len(users') <= MaxUsers /\ Len(messages') <= MaxMsgs

ApiPhones == {PhoneA, PhoneB}
ApiContactBodies ==
    { <<c, <<>>, <<>> >> : c \in IdInputs \ {0} } \cup { <<0, PhoneB, NameBo>> }
ApiProfileBodies == { << <<NameBo>>, <<"busy">>, <<>> >> }

ApiRegister == \E p \in ApiPhones : Register(p, <<"p">>, NameAl) /\ Capped /\ UNCHANGED client
ApiLogin == \E p \in ApiPhones : Login(p, <<"p">>) /\ UNCHANGED client
ApiListContacts == \E s \in SessionInputs : ListContacts(s) /\ UNCHANGED client
ApiAddContact == \E s \in SessionInputs, b \in ApiContactBodies :
    AddContact(s, b[1], b[2], b[3]) /\ Capped
        /\ UNCHANGED client
ApiGetMessages == \E s \in SessionInputs, o \in 0..MaxUsers : GetMessages(s, o)
        /\ UNCHANGED client
ApiSendMessage == \E s \in SessionInputs, r \in 0..MaxUsers, c \in {<<>>, <<"h", "i">>} :
    SendMessage(s, r, c) /\ Capped
        /\ UNCHANGED client
ApiSearchUsers == \E s \in SessionInputs : SearchUsers(s, <<"a">>) /\ UNCHANGED client
ApiGetUserById == \E s \in SessionInputs, id \in {1, MaxUsers + 1} : GetUserById(s, id)
        /\ UNCHANGED client
ApiHeartbeat == \E s \in SessionInputs : Heartbeat(s) /\ UNCHANGED client
ApiStatusQuery == \E s \in SessionInputs : StatusQuery(s, <<2, 1>>) /\ UNCHANGED client
ApiGetProfile == \E s \in SessionInputs : GetProfile(s) /\ UNCHANGED client
ApiUpdateProfile == \E s \in SessionInputs, b \in ApiProfileBodies :
    UpdateProfile(s, b[1], b[2], b[3])
        /\ UNCHANGED client
ApiUploadPicture == \E s \in SessionInputs, f \in FileInputs :
    UploadPicture(s, f)
        /\ UNCHANGED client

Next ==
    \/ ApiRegister
    \/ ApiLogin
    \/ ApiListContacts
    \/ ApiAddContact
    \/ ApiGetMessages
    \/ ApiSendMessage
    \/ ApiSearchUsers
    \/ ApiGetUserById
    \/ ApiHeartbeat
    \/ ApiStatusQuery
    \/ ApiGetProfile
    \/ ApiUpdateProfile
    \/ ApiUploadPicture

Spec == Init /\ [][Next]_vars

\* --------------------------------------- conversations over any stored list
\* Three users, registered and signed in.
ThreeUsers ==
    << NewUser(1, PhoneA, Hash(<<"p">>), NameAl, StartTime),
       NewUser(2, PhoneB, Hash(<<"q">>), NameBo, StartTime),
       NewUser(3, PhoneC, Hash(<<"p">>), NameAl, StartTime) >>

\* Who wrote to whom in the stored lists, and when: any order of timestamps
\* (Date.now() is the wall clock, which can be set back between two sends).
StorePairs == {<<1, 2>>, <<2, 1>>, <<1, 3>>, <<3, 1>>, <<2, 3>>, <<1, 1>>}
StoreTimes == {StartTime, StartTime + 1}

StoreLists ==
    UNION { [1..n -> StorePairs \X StoreTimes \X BOOLEAN] : n \in 0..MaxStoreMsgs }

StoredList(l) ==
    [i \in 1..Len(l) |->
        [id |-> i, senderId |-> l[i][1][1], receiverId |-> l[i][1][2],
         content |-> <<"h", "i">>, timestamp |-> l[i][2], read |-> l[i][3]]]

StoreInit ==
    /\ users = ThreeUsers
    /\ contacts = <<>>
    /\ \E l \in StoreLists :
          /\ messages = StoredList(l)
          /\ ids = [user |-> 3, msg |-> Len(l)]
    /\ now = StartTime + 1
    /\ sessions = {1, 2, 3}
    /\ pending = <<>>
    /\ unwritable = {}
    /\ unreadable = {}
    /\ client = NoClient
    /\ lastReq = [op |-> "none", session |-> NoSession]
    /\ resp = [status |-> 0, error |-> "", body |-> <<>>]

StoreGetMessages == \E s \in SessionInputs, o \in 0..3 : GetMessages(s, o) /\ UNCHANGED client

StoreNext == StoreGetMessages

SpecStore == StoreInit /\ [][StoreNext]_vars

\* ------------------------------------- three signed-in users exchanging messages
MsgInit ==
    /\ users = ThreeUsers
    /\ contacts = <<>>
    /\ messages = <<>>
    /\ ids = [user |-> 3, msg |-> 0]
    /\ now = StartTime
    /\ sessions = {1, 2, 3}
    /\ pending = <<>>
    /\ unwritable = {}
    /\ unreadable = {}
    /\ client = NoClient
    /\ lastReq = [op |-> "none", session |-> NoSession]
    /\ resp = [status |-> 0, error |-> "", body |-> <<>>]

MsgSendMessage == \E s \in SessionInputs, r \in 0..3, c \in ContentInputs :
    SendMessage(s, r, c) /\ Len(messages') <= MaxConvMsgs
        /\ UNCHANGED client
MsgGetMessages == \E s \in SessionInputs, o \in 0..3 : GetMessages(s, o) /\ UNCHANGED client

MsgNext == MsgSendMessage \/ MsgGetMessages

SpecMsg == MsgInit /\ [][MsgNext]_vars

\* ---------------- two signed-in users: messages among the other kinds of request
LogInit ==
    /\ users = SubSeq(ThreeUsers, 1, 2)
    /\ contacts = <<>>
    /\ messages = <<>>
    /\ ids = [user |-> 2, msg |-> 0]
    /\ now = StartTime
    /\ sessions = {1, 2}
    /\ pending = <<>>
    /\ unwritable = {}
    /\ unreadable = {}
    /\ client = NoClient
    /\ lastReq = [op |-> "none", session |-> NoSession]
    /\ resp = [status |-> 0, error |-> "", body |-> <<>>]

LogSendMessage ==
    \E s \in SessionInputs, r \in 0..2, c \in {<<>>, <<" ", "h", "i", "\t">>} :
        SendMessage(s, r, c) /\ Len(messages') <= MaxConvMsgs
        /\ UNCHANGED client
LogGetMessages == \E s \in SessionInputs, o \in 0..2 : GetMessages(s, o) /\ UNCHANGED client
LogAddContact == AddContact(1, 2, <<>>, <<>>) /\ UNCHANGED client
LogHeartbeat == Heartbeat(1) /\ UNCHANGED client
LogUpdateProfile == UpdateProfile(1, <<NameBo>>, <<"busy">>, <<>>) /\ UNCHANGED client
LogRegister == Register(PhoneC, <<"p">>, NameAl) /\ Len(users') <= 3 /\ UNCHANGED client

LogNext ==
    \/ LogSendMessage
    \/ LogGetMessages
    \/ LogAddContact
    \/ LogHeartbeat
    \/ LogUpdateProfile
    \/ LogRegister

SpecLog == LogInit /\ [][LogNext]_vars

\* ------------------------- accounts: register, sign in, add a contact
AuthRegister == \E p \in PhoneInputs, pw \in PasswordInputs, n \in NameInputs :
    Register(p, pw, n) /\ Len(users') <= MaxUsers
        /\ UNCHANGED client
AuthLogin == \E p \in PhoneInputs, pw \in PasswordInputs : Login(p, pw) /\ UNCHANGED client
AuthAddContact == \E s \in SessionInputs, b \in AddContactBodies :
    AddContact(s, b[1], b[2], b[3]) /\ Len(users') <= MaxUsers
        /\ UNCHANGED client

AuthNext == AuthRegister \/ AuthLogin \/ AuthAddContact

SpecAuth == Init /\ [][AuthNext]_vars

\* ----------------------- register suspended in bcrypt.hash, other requests served
\* register up to `await bcrypt.hash`: the checks, then the request waits.
RegisterBegin(phone, password, name) ==
    LET req == RegisterRequest(phone, password, name)
        error == RegisterError(getUsers, req)
    IN  /\ IF error # ""
           THEN Reply(req, 400, error, <<>>) /\ UNCHANGED pending
           ELSE /\ Len(pending) < MaxPending
                /\ pending' = Append(pending, req)
                /\ UNCHANGED <<lastReq, resp>>
        /\ UNCHANGED <<users, contacts, messages, ids, now, sessions, unwritable,
                       unreadable>>

\* register from the resolution of bcrypt.hash on.
RegisterFinish(k) ==
    /\ RegisterCreate(pending[k])
    /\ pending' = SubSeq(pending, 1, k - 1) \o SubSeq(pending, k + 1, Len(pending))
    /\ UNCHANGED <<contacts, messages, now, sessions, unwritable, unreadable>>

RacePhones == {PhoneA, PhoneASpaced, PhoneB}

RaceRegisterBegin == \E p \in RacePhones, pw \in {<<>>, <<"p">>} :
    RegisterBegin(p, pw, NameAl)
        /\ UNCHANGED client
RaceRegisterFinish == \E k \in 1..Len(pending) :
    RegisterFinish(k) /\ Len(users') <= MaxUsers + 1
        /\ UNCHANGED client
RaceLogin == \E p \in RacePhones : Login(p, <<"p">>) /\ UNCHANGED client
RaceAddContact == \E s \in SessionInputs, p \in RacePhones :
    AddContact(s, 0, p, NameBo) /\ Len(users') <= MaxUsers + 1
        /\ UNCHANGED client

RaceNext ==
    \/ RaceRegisterBegin
    \/ RaceRegisterFinish
    \/ RaceLogin
    \/ RaceAddContact

SpecRace == Init /\ [][RaceNext]_vars

\* ------------------- three users, two of them signed in, adding contacts
ContactsInit ==
    /\ users = ThreeUsers
    /\ contacts = <<>>
    /\ messages = <<>>
    /\ ids = [user |-> 3, msg |-> 0]
    /\ now = StartTime
    /\ sessions = {1, 2}
    /\ pending = <<>>
    /\ unwritable = {}
    /\ unreadable = {}
    /\ client = NoClient
    /\ lastReq = [op |-> "none", session |-> NoSession]
    /\ resp = [status |-> 0, error |-> "", body |-> <<>>]

ContactsAddById == \E s \in SessionInputs, c \in 1..(MaxUsers + 2) :
    AddContact(s, c, <<>>, <<>>)
        /\ UNCHANGED client
ContactsAddByPhone ==
    \E s \in SessionInputs, p \in {PhoneASpaced, PhoneShort, PhoneD} :
        AddContact(s, 0, p, NameBo) /\ Len(users') <= MaxUsers + 2
        /\ UNCHANGED client

ContactsNext == ContactsAddById \/ ContactsAddByPhone

SpecContacts == ContactsInit /\ [][ContactsNext]_vars

\* ------------------------------ searching while the contact lists are filled
QueryInputs ==
    {<<>>, <<" ">>, <<"A", "L">>, <<"o">>, <<"9", " ", "8">>, <<"7", "7", "7", "0">>}

SearchSearchUsers == \E s \in SessionInputs, q \in QueryInputs : SearchUsers(s, q)
        /\ UNCHANGED client

SearchNext == ContactsAddById \/ ContactsAddByPhone \/ SearchSearchUsers

SpecSearch == ContactsInit /\ [][SearchNext]_vars

\* ---------------------------------------- presence while the clock advances
\* Date.now() between two requests: a minute passes.
Tick ==
    /\ now < MaxTime
    /\ now' = now + 1
    /\ UNCHANGED <<users, contacts, messages, ids, sessions, pending, lastReq, resp,
                   unwritable, unreadable, client>>

\* Three users, the second with a status and a picture; the first two are signed
\* in and have each other and the third as contacts.
PresenceInit ==
    /\ users = [ThreeUsers EXCEPT ![2].status = "busy", ![2].profilePicture = "bo.png"]
    /\ contacts = addContact(addContact(addContact(<<>>, 1, 2, StartTime),
                                        1, 3, StartTime), 2, 1, StartTime)
    /\ messages = <<>>
    /\ ids = [user |-> 3, msg |-> 0]
    /\ now = StartTime
    /\ sessions = {1, 2}
    /\ pending = <<>>
    /\ unwritable = {}
    /\ unreadable = {}
    /\ client = NoClient
    /\ lastReq = [op |-> "none", session |-> NoSession]
    /\ resp = [status |-> 0, error |-> "", body |-> <<>>]

PresenceHeartbeat == \E s \in SessionInputs : Heartbeat(s) /\ UNCHANGED client
PresenceStatusQuery ==
    \E s \in SessionInputs, l \in {<<>>, <<1, 2, 3, 4>>} : StatusQuery(s, l)
        /\ UNCHANGED client
PresenceListContacts == \E s \in SessionInputs : ListContacts(s) /\ UNCHANGED client

PresenceNext ==
    \/ Tick
    \/ PresenceHeartbeat
    \/ PresenceStatusQuery
    \/ PresenceListContacts

SpecPresence == PresenceInit /\ [][PresenceNext]_vars

\* ------------------- two signed-in users: user records under every writing route
ProfileBodies ==
    {<<n, st, pic>> : n \in {<<>>, <<NameBo>>}, st \in {<<>>, <<"busy">>},
                      pic \in {<<>>, <<"">>, <<"a.png">>}}

UsersUpdateProfile == \E s \in {NoSession, 1}, b \in ProfileBodies :
    UpdateProfile(s, b[1], b[2], b[3])
        /\ UNCHANGED client
UsersHeartbeat == Heartbeat(2) /\ UNCHANGED client
UsersAddContact == \E b \in {<<2, <<>> >>, <<0, PhoneD>>} :
    AddContact(1, b[1], b[2], NameBo) /\ Len(users') <= MaxUsers + 1
        /\ UNCHANGED client
UsersSendMessage == SendMessage(1, 2, <<"h", "i">>) /\ Len(messages') <= MaxMsgs
        /\ UNCHANGED client
UsersGetMessages == GetMessages(2, 1) /\ UNCHANGED client
UsersRegister == \E p \in {PhoneA, PhoneD} :
    Register(p, <<"p">>, NameAl) /\ Len(users') <= MaxUsers + 1
        /\ UNCHANGED client

UsersNext ==
    \/ UsersUpdateProfile
    \/ UsersHeartbeat
    \/ UsersAddContact
    \/ UsersSendMessage
    \/ UsersGetMessages
    \/ UsersRegister

SpecUsers == LogInit /\ [][UsersNext]_vars

\* ------------------------- two signed-in users, some backing files unwritable
BackingFiles == {"users", "contacts", "messages"}

FaultInit ==
    /\ users = SubSeq(ThreeUsers, 1, 2)
    /\ contacts = <<>>
    /\ messages = <<>>
    /\ ids = [user |-> 2, msg |-> 0]
    /\ now = StartTime
    /\ sessions = {1, 2}
    /\ pending = <<>>
    /\ unwritable \in SUBSET BackingFiles
    /\ unreadable = {}
    /\ client = NoClient
    /\ lastReq = [op |-> "none", session |-> NoSession]
    /\ resp = [status |-> 0, error |-> "", body |-> <<>>]

\* Ids are fresh whether or not the record reaches the file: the ids issued are
\* capped, and with them the collections.
FaultCapped == ids'.user <= MaxUsers + 1 /\ ids'.msg <= MaxMsgs + 1

FaultRegister == Register(PhoneC, <<"p">>, NameAl) /\ FaultCapped /\ UNCHANGED client
FaultAddContact == \E b \in {<<2, <<>> >>, <<0, PhoneD>>} :
    AddContact(1, b[1], b[2], NameBo) /\ FaultCapped
        /\ UNCHANGED client
FaultSendMessage == SendMessage(1, 2, <<" ", "h", "i", "\t">>) /\ FaultCapped
        /\ UNCHANGED client
FaultGetMessages == GetMessages(2, 1) /\ UNCHANGED client
FaultHeartbeat == Heartbeat(2) /\ UNCHANGED client
FaultUpdateProfile == \E b \in {<< <<NameBo>>, <<>>, <<>> >>, << <<>>, <<"busy">>, <<"a.png">> >>} :
    UpdateProfile(1, b[1], b[2], b[3])
        /\ UNCHANGED client

FaultNext ==
    \/ FaultRegister
    \/ FaultAddContact
    \/ FaultSendMessage
    \/ FaultGetMessages
    \/ FaultHeartbeat
    \/ FaultUpdateProfile

SpecFault == FaultInit /\ [][FaultNext]_vars

\* --------- two server processes on one data directory: loads and saves as steps
MaxWriters == 2

Without(seq, k) == SubSeq(seq, 1, k - 1) \o SubSeq(seq, k + 1, Len(seq))

\* A request a server process is still handling: what it has loaded so far.
Handling(req, step, conversation, loaded) ==
    [req |-> req, step |-> step, conversation |-> conversation, loaded |-> loaded]

\* POST /messages up to and including createMessage's getMessages().
SendMessageLoad(s, receiverId, content) ==
    LET req == [op |-> "sendMessage", session |-> s, receiverId |-> receiverId,
                content |-> content]
    IN  /\ IF ~HasUserId(s) THEN Unauthorized(req) /\ UNCHANGED pending
           ELSE IF SendRejects(receiverId, content)
           THEN /\ Reply(req, 400, "Receiver ID and content are required", <<>>)
                /\ UNCHANGED pending
           ELSE /\ pending' = Append(pending, Handling(req, "create", <<>>, getMessages))
                /\ UNCHANGED <<lastReq, resp>>
        /\ UNCHANGED <<users, contacts, messages, ids, now, sessions, unwritable,
                       unreadable>>

\* POST /messages from createMessage's push and writeFileSync on.
SendMessageSave(k) ==
    LET req == pending[k].req
        newMessage == NewMessage(ids.msg + 1, req.session, req.receiverId,
                                 Trim(req.content), now)
    IN  /\ pending[k].step = "create"
        /\ messages' = WriteFile("messages", messages,
                                 createMessage(pending[k].loaded, newMessage))
        /\ ids' = [ids EXCEPT !.msg = @ + 1]
        /\ Reply(req, 201, "", <<newMessage>>)
        /\ pending' = Without(pending, k)
        /\ UNCHANGED <<users, contacts, now, sessions, unwritable, unreadable>>

\* GET /messages up to and including getConversationMessages.
GetMessagesConversation(s, otherUserId) ==
    LET req == [op |-> "getMessages", session |-> s, userId |-> otherUserId]
    IN  /\ IF ~HasUserId(s) THEN Unauthorized(req) /\ UNCHANGED pending
           ELSE IF otherUserId = 0
           THEN Reply(req, 400, "User ID is required", <<>>) /\ UNCHANGED pending
           ELSE /\ pending' = Append(pending,
                       Handling(req, "conversation",
                                getConversationMessages(getMessages, s, otherUserId),
                                <<>>))
                /\ UNCHANGED <<lastReq, resp>>
        /\ UNCHANGED <<users, contacts, messages, ids, now, sessions, unwritable,
                       unreadable>>

\* markMessagesAsRead's getMessages().
GetMessagesMarkLoad(k) ==
    /\ pending[k].step = "conversation"
    /\ pending' = [pending EXCEPT ![k].step = "mark", ![k].loaded = getMessages]
    /\ UNCHANGED <<users, contacts, messages, ids, now, sessions, lastReq, resp,
                   unwritable, unreadable>>

\* markMessagesAsRead's map and writeFileSync, then the response.
GetMessagesMarkSave(k) ==
    LET req == pending[k].req
    IN  /\ pending[k].step = "mark"
        /\ messages' = WriteFile("messages", messages,
                                 markMessagesAsRead(pending[k].loaded, req.session,
                                                    req.userId))
        /\ Reply(req, 200, "", pending[k].conversation)
        /\ pending' = Without(pending, k)
        /\ UNCHANGED <<users, contacts, ids, now, sessions, unwritable, unreadable>>

LostSendMessageLoad == \E s \in {NoSession, 1}, r \in {0, 2} :
    SendMessageLoad(s, r, <<"h", "i">>) /\ Len(pending') <= MaxWriters
        /\ UNCHANGED client
LostSendMessageSave == \E k \in 1..Len(pending) :
    SendMessageSave(k) /\ ids'.msg <= MaxConvMsgs
        /\ UNCHANGED client
LostGetMessagesConversation == \E s \in {NoSession, 2}, o \in {0, 1} :
    GetMessagesConversation(s, o) /\ Len(pending') <= MaxWriters
        /\ UNCHANGED client
LostGetMessagesMarkLoad == \E k \in 1..Len(pending) : GetMessagesMarkLoad(k) /\ UNCHANGED client
LostGetMessagesMarkSave == \E k \in 1..Len(pending) : GetMessagesMarkSave(k) /\ UNCHANGED client

LostNext ==
    \/ LostSendMessageLoad
    \/ LostSendMessageSave
    \/ LostGetMessagesConversation
    \/ LostGetMessagesMarkLoad
    \/ LostGetMessagesMarkSave

SpecLost == LogInit /\ [][LostNext]_vars

\* ------------------ two signed-in users, loads that fail for some of the files
\* The next request finds the given files unreadable (readFileSync throws, or
\* the content does not parse) or readable again; what they hold stays.
ReadFault(files) ==
    /\ files # unreadable
    /\ unreadable' = files
    /\ UNCHANGED <<users, contacts, messages, ids, now, sessions, pending, lastReq,
                   resp, unwritable, client>>

UnreadReadFault == \E files \in SUBSET BackingFiles : ReadFault(files)
UnreadRegister == Register(PhoneC, <<"p">>, NameAl) /\ FaultCapped /\ UNCHANGED client
UnreadAddContact == \E b \in {<<2, <<>> >>, <<0, PhoneD>>} :
    AddContact(1, b[1], b[2], NameBo) /\ FaultCapped
        /\ UNCHANGED client
UnreadSendMessage == SendMessage(1, 2, <<"h", "i">>) /\ FaultCapped /\ UNCHANGED client
UnreadGetMessages == GetMessages(2, 1) /\ UNCHANGED client
UnreadHeartbeat == Heartbeat(2) /\ UNCHANGED client
UnreadUpdateProfile == UpdateProfile(1, <<NameBo>>, <<>>, <<>>) /\ UNCHANGED client

UnreadNext ==
    \/ UnreadReadFault
    \/ UnreadRegister
    \/ UnreadAddContact
    \/ UnreadSendMessage
    \/ UnreadGetMessages
    \/ UnreadHeartbeat
    \/ UnreadUpdateProfile

SpecUnread == LogInit /\ [][UnreadNext]_vars

\* ------------------------------------------------------------ the chat view
\* ChatInterface of user 1. A fetch the view calls waits in client.calls until the
\* server has handled it; its response waits in client.inFlight until the code
\* after the await runs. A render and the effects it triggers are one step. Left
\* out: fetchUserProfile, the search box with its debounce timeout and the focus
\* timeouts, which touch none of the state below.
MaxCalls == 2
MaxInFlight == 2

\* A fetch that has been called: the function that called it, the session cookie
\* it carries, and what the function had in its closure.
Call(fn, session, contactId, userIds, selected) ==
    [fn |-> fn, session |-> session, contactId |-> contactId, userIds |-> userIds,
     selected |-> selected]

\* A response that has arrived for a call: its status and its JSON, a list (of
\* contacts, of messages) or the status map.
Arrived(call, status, body) ==
    [fn |-> call.fn, selected |-> call.selected, status |-> status,
     body |-> IF call.fn = "fetchContactsStatus" THEN <<>> ELSE body,
     statusMap |-> IF call.fn = "fetchContactsStatus" /\ status = 200
                   THEN body[1] ELSE <<>>]

\* An interval timer and what its callback closes over.
Timer(id, kind, contactId, userIds, selected) ==
    [id |-> id, kind |-> kind, contactId |-> contactId, userIds |-> userIds,
     selected |-> selected]

TimerIds(c) ==
    {t.id : t \in c.timers}
        \cup {c.pollIntervalRef, c.statusIntervalRef, c.heartbeatIntervalRef}

\* setInterval's return value: an id no timer has and no ref holds.
FreshTimer(c) ==
    CHOOSE n \in 1..(Cardinality(TimerIds(c)) + 1) :
        n \notin TimerIds(c) /\ \A m \in 1..(n - 1) : m \in TimerIds(c)

clearIntervalForgets(c, id) == c

\* if (ref.current) clearInterval(ref.current)
clearInterval(c, id) == [c EXCEPT !.timers = {t \in @ : t.id # id}]

\* contacts.map(c => c.id)
ContactIds(cs) == [i \in 1..Len(cs) |-> cs[i].id]

fetchContacts(c) ==
    [c EXCEPT !.calls = Append(@, Call("fetchContacts", c.session, 0, <<>>, 0))]

fetchMessages(c, contactId) ==
    [c EXCEPT !.calls = Append(@, Call("fetchMessages", c.session, contactId, <<>>, 0))]

updateOnlineStatus(c) ==
    [c EXCEPT !.calls = Append(@, Call("updateOnlineStatus", c.session, 0, <<>>, 0))]

\* fetchContactsStatus as created by the render that had the given contacts and
\* selectedContact: if (contacts.length === 0) return, else the status fetch
\* for those contacts.
fetchContactsStatus(c, userIds, selected) ==
    IF userIds = <<>> THEN c
    ELSE [c EXCEPT !.calls = Append(@, Call("fetchContactsStatus", c.session, 0,
                                            userIds, selected))]

\* useEffect(..., [session]): the body and the cleanup it returns.
MountEffect(c) ==
    IF c.session = NoSession THEN c
    ELSE LET c1 == updateOnlineStatus(fetchContacts(c))
             h == FreshTimer(c1)
             c2 == [c1 EXCEPT !.timers = @ \cup {Timer(h, "heartbeat", 0, <<>>, 0)},
                              !.heartbeatIntervalRef = h]
             st == FreshTimer(c2)
         IN  [c2 EXCEPT !.timers = @ \cup {Timer(st, "status", 0, ContactIds(c.contacts),
                                                 c.selectedContact)},
                        !.statusIntervalRef = st]

MountCleanup(c) ==
    IF c.session = NoSession THEN c
    ELSE clearInterval(clearInterval(c, c.heartbeatIntervalRef), c.statusIntervalRef)

\* useEffect(..., [contacts.length])
ContactsLengthEffect(c) ==
    IF Len(c.contacts) > 0
    THEN fetchContactsStatus(c, ContactIds(c.contacts), c.selectedContact)
    ELSE c

\* useEffect(..., [selectedContact]): load the conversation.
LoadEffect(c) ==
    IF c.selectedContact # 0 THEN fetchMessages(c, c.selectedContact) ELSE c

\* useEffect(..., [selectedContact, session]): the body and the cleanup.
PollEffect(c) ==
    IF c.selectedContact # 0 /\ c.session # NoSession
    THEN LET p == FreshTimer(c)
         IN  [c EXCEPT !.timers = @ \cup {Timer(p, "poll", c.selectedContact, <<>>, 0)},
                       !.pollIntervalRef = p]
    ELSE c

PollCleanup(c) ==
    IF c.selectedContact # 0 /\ c.session # NoSession
    THEN clearInterval(c, c.pollIntervalRef)
    ELSE c

\* getUnreadCount(contactId) of the view whose session user is me.
getUnreadCount(ms, me, contactId) ==
    Cardinality({i \in 1..Len(ms) :
                    ms[i].receiverId = me /\ ms[i].senderId = contactId /\ ~ms[i].read})

ServerUnchanged ==
    UNCHANGED <<users, contacts, messages, ids, now, sessions, pending, lastReq, resp,
                unwritable, unreadable>>

\* The view is mounted for the first time, useSession giving s: every effect runs.
Mount(s) ==
    /\ client = NoClient
    /\ client' = [PollEffect(LoadEffect(ContactsLengthEffect(MountEffect(
                     [NoClient EXCEPT !.mounted = TRUE, !.session = s]))))
                  EXCEPT !.event = Event("none", 0, <<>>)]
    /\ ServerUnchanged

\* The view is unmounted: the cleanup of every effect runs.
Unmount ==
    /\ client.mounted
    /\ client' = [MountCleanup(PollCleanup(client))
                  EXCEPT !.mounted = FALSE, !.event = Event("none", 0, <<>>)]
    /\ ServerUnchanged

\* useSession gives another session object, or null: the effects that depend
\* on session are cleaned up and run again.
SessionChange(s) ==
    /\ client.mounted
    /\ LET cleaned == MountCleanup(PollCleanup(client))
       IN  client' = [PollEffect(MountEffect([cleaned EXCEPT !.session = s]))
                      EXCEPT !.event = Event("none", 0, <<>>)]
    /\ ServerUnchanged

\* A click on a contact of the list: setSelectedContact(contact).
SelectContact(k) ==
    /\ client.mounted /\ client.session # NoSession
    /\ k \in 1..Len(client.contacts)
    /\ LET cleaned == PollCleanup(client)
       IN  client' = [PollEffect(LoadEffect(
                         [cleaned EXCEPT !.selectedContact = client.contacts[k].id]))
                      EXCEPT !.event = Event("select", client.selectedContact, <<>>)]
    /\ ServerUnchanged

\* The callback of a message-poll timer runs.
PollTick(t) ==
    /\ t \in client.timers /\ t.kind = "poll"
    /\ client' = [fetchMessages(client, t.contactId)
                  EXCEPT !.event = Event("poll", t.contactId, <<>>)]
    /\ ServerUnchanged

\* The callback of a heartbeat timer runs.
HeartbeatTick(t) ==
    /\ t \in client.timers /\ t.kind = "heartbeat"
    /\ client' = [updateOnlineStatus(client) EXCEPT !.event = Event("heartbeat", 0, <<>>)]
    /\ ServerUnchanged

\* The callback of a status timer runs: the fetchContactsStatus of the render
\* in which the timer was set.
StatusTick(t) ==
    /\ t \in client.timers /\ t.kind = "status"
    /\ LET after == fetchContactsStatus(client, t.userIds, t.selected)
       IN  client' = [after EXCEPT !.event =
                         Event("status", 0,
                               IF after.calls = client.calls THEN <<>> ELSE t.userIds)]
    /\ ServerUnchanged

\* The server handles the oldest call; a call whose function reads the response
\* then has it in flight.
Handled(status, body) ==
    [client EXCEPT !.calls = Tail(@),
                   !.inFlight = Append(@, Arrived(Head(client.calls), status, body)),
                   !.event = Event("none", 0, <<>>)]

CallFetchContacts ==
    /\ client.calls # <<>> /\ Head(client.calls).fn = "fetchContacts"
    /\ ListContacts(Head(client.calls).session)
    /\ client' = Handled(resp'.status, resp'.body)

CallFetchMessages ==
    /\ client.calls # <<>> /\ Head(client.calls).fn = "fetchMessages"
    /\ GetMessages(Head(client.calls).session, Head(client.calls).contactId)
    /\ client' = Handled(resp'.status, resp'.body)

CallFetchContactsStatus ==
    /\ client.calls # <<>> /\ Head(client.calls).fn = "fetchContactsStatus"
    /\ StatusQuery(Head(client.calls).session, Head(client.calls).userIds)
    /\ client' = Handled(resp'.status, resp'.body)

CallUpdateOnlineStatus ==
    /\ client.calls # <<>> /\ Head(client.calls).fn = "updateOnlineStatus"
    /\ Heartbeat(Head(client.calls).session)
    /\ client' = [client EXCEPT !.calls = Tail(@), !.event = Event("none", 0, <<>>)]

\* isOnline: statusMap[contact.id]?.isOnline || false, lastSeen likewise
WithStatus(contact, statusMap) ==
    [contact EXCEPT
        !.isOnline = IF contact.id \in DOMAIN statusMap
                     THEN statusMap[contact.id].isOnline ELSE FALSE,
        !.lastSeen = IF contact.id \in DOMAIN statusMap
                     THEN statusMap[contact.id].lastSeen ELSE NoTime]

ResumedOnlyContacts(c, r) ==
    IF ~c.mounted \/ r.status # 200 \/ r.fn # "fetchContacts" THEN c
    ELSE [c EXCEPT !.contacts = r.body]

\* The code after the await of a response in flight.
Resumed(c, r) ==
    IF ~c.mounted \/ r.status # 200 THEN c
    ELSE IF r.fn = "fetchContacts"
    THEN LET set == [c EXCEPT !.contacts = r.body]
         IN  IF Len(r.body) # Len(c.contacts) THEN ContactsLengthEffect(set) ELSE set
    ELSE IF r.fn = "fetchMessages"
    THEN [c EXCEPT !.messages = r.body]
    ELSE LET set == [c EXCEPT !.contacts =
                        [i \in 1..Len(@) |-> WithStatus(@[i], r.statusMap)]]
         IN  IF r.selected # 0 /\ r.selected \in DOMAIN r.statusMap /\ c.selectedContact # 0
             THEN PollEffect(LoadEffect(PollCleanup(set)))
             ELSE set

Resume(k) ==
    /\ k \in 1..Len(client.inFlight)
    /\ client' = [Resumed([client EXCEPT !.inFlight = Without(@, k)], client.inFlight[k])
                  EXCEPT !.event = Event("none", 0, <<>>)]
    /\ ServerUnchanged

\* ------------------- the chat view of user 1, who has two contacts: its timers
ChatCapped ==
    Len(client'.calls) <= MaxCalls /\ Len(client'.inFlight) <= MaxInFlight

TimersMount == \E s \in {NoSession, 1} : Mount(s)
TimersUnmount == Unmount
TimersSessionChange == \E s \in {NoSession, 1} : SessionChange(s) /\ ChatCapped
TimersSelectContact == \E k \in 1..2 : SelectContact(k) /\ ChatCapped
TimersPollTick == \E t \in client.timers : PollTick(t) /\ ChatCapped
TimersHeartbeatTick == \E t \in client.timers : HeartbeatTick(t) /\ ChatCapped
TimersStatusTick == \E t \in client.timers : StatusTick(t) /\ ChatCapped
TimersCallFetchContacts == CallFetchContacts /\ ChatCapped
TimersCallFetchMessages == CallFetchMessages /\ ChatCapped
TimersCallFetchContactsStatus == CallFetchContactsStatus /\ ChatCapped
TimersCallUpdateOnlineStatus == CallUpdateOnlineStatus
TimersResume == \E k \in 1..Len(client.inFlight) : Resume(k) /\ ChatCapped

TimersNext ==
    \/ TimersMount
    \/ TimersUnmount
    \/ TimersSessionChange
    \/ TimersSelectContact
    \/ TimersPollTick
    \/ TimersHeartbeatTick
    \/ TimersStatusTick
    \/ TimersCallFetchContacts
    \/ TimersCallFetchMessages
    \/ TimersCallFetchContactsStatus
    \/ TimersCallUpdateOnlineStatus
    \/ TimersResume

SpecTimers == PresenceInit /\ [][TimersNext]_vars

\* ------- the chat view of user 1 with a conversation open; user 2 writes to them
FetchMount == Mount(1)
FetchSelectContact == \E k \in 1..2 : SelectContact(k) /\ ChatCapped
FetchPollTick == \E t \in client.timers : PollTick(t) /\ ChatCapped
FetchCallFetchContacts == CallFetchContacts /\ ChatCapped
FetchCallFetchMessages == CallFetchMessages /\ ChatCapped
FetchCallFetchContactsStatus == CallFetchContactsStatus /\ ChatCapped
FetchCallUpdateOnlineStatus == CallUpdateOnlineStatus
FetchResume == \E k \in 1..Len(client.inFlight) : Resume(k) /\ ChatCapped
FetchOtherSends ==
    SendMessage(2, 1, <<"h", "i">>) /\ Len(messages') <= MaxMsgs /\ UNCHANGED client

FetchNext ==
    \/ FetchMount
    \/ FetchSelectContact
    \/ FetchPollTick
    \/ FetchCallFetchContacts
    \/ FetchCallFetchMessages
    \/ FetchCallFetchContactsStatus
    \/ FetchCallUpdateOnlineStatus
    \/ FetchResume
    \/ FetchOtherSends

SpecFetch == PresenceInit /\ [][FetchNext]_vars

\* --------- the chat view of user 1 sending heartbeats; user 2 asks for presence
HeartbeatTimers(c) == {t \in c.timers : t.kind = "heartbeat"}

\* A minute passes. The heartbeat interval is 30 seconds: while the view has its
\* heartbeat timer the minute does not end before a heartbeat of that minute is
\* stored.
BeatTick ==
    /\ HeartbeatTimers(client) # {} => users[1].lastSeen = now
    /\ Tick

BeatMount == Mount(1)
BeatUnmount == Unmount
BeatHeartbeatTick == \E t \in client.timers : HeartbeatTick(t) /\ ChatCapped
BeatCallFetchContacts == CallFetchContacts /\ ChatCapped
BeatCallFetchContactsStatus == CallFetchContactsStatus /\ ChatCapped
BeatCallUpdateOnlineStatus == CallUpdateOnlineStatus
BeatResume == \E k \in 1..Len(client.inFlight) : Resume(k) /\ ChatCapped
BeatStatusQuery == StatusQuery(2, <<1>>) /\ UNCHANGED client
BeatListContacts == ListContacts(2) /\ UNCHANGED client

BeatNext ==
    \/ BeatTick
    \/ BeatMount
    \/ BeatUnmount
    \/ BeatHeartbeatTick
    \/ BeatCallFetchContacts
    \/ BeatCallFetchContactsStatus
    \/ BeatCallUpdateOnlineStatus
    \/ BeatResume
    \/ BeatStatusQuery
    \/ BeatListContacts

SpecBeat == PresenceInit /\ [][BeatNext]_vars

\* ------------------------------------------------------------------ claims
\* The routes behind the session check: every route but registration (and the
\* sign-in itself, which is how a session is obtained).
GatedOps ==
    {"listContacts", "addContact", "getMessages", "sendMessage", "searchUsers",
     "getUserById", "heartbeat", "statusQuery", "getProfile", "updateProfile",
     "uploadPicture"}

\* C1: a request to any route other than registration that carries no session
\* with a user id is answered 401 and leaves users, contacts and messages as
\* they were.
C1_NoSessionIs401 ==
    [][(lastReq'.op \in GatedOps /\ lastReq'.session = NoSession)
        => (resp'.status = 401 /\ stores' = stores)]_vars

C1_Witness ==
    /\ lastReq.op = "sendMessage"
    /\ lastReq.session = NoSession
    /\ lastReq.receiverId # 0
    /\ Truthy(lastReq.content)
    /\ resp.status = 401
    /\ Len(users) = 2
    /\ messages # <<>>
    /\ DOMAIN contacts # {}

\* The step is a conversation fetch that was served.
FetchServed == lastReq'.op = "getMessages" /\ resp'.status = 200

\* The stored messages exchanged between a and b, in either direction.
Between(a, b) ==
    {i \in 1..Len(messages) :
        {messages[i].senderId, messages[i].receiverId} = {a, b}}

IsSortedByTimestamp(list) ==
    \A i \in 1..Len(list), j \in 1..Len(list) :
        i < j => list[i].timestamp <= list[j].timestamp

\* C3: the conversation returned to A about B is the one B would be returned
\* about A; it holds exactly the stored messages exchanged between the two, each
\* once, in non-decreasing timestamp order.
C3_ConversationSymmetricSorted ==
    [][FetchServed =>
        LET a == lastReq'.session
            b == lastReq'.userId
            got == resp'.body
        IN  /\ got = getConversationMessages(messages, b, a)
            /\ Len(got) = Cardinality(Between(a, b))
            /\ {got[i] : i \in 1..Len(got)} = {messages[i] : i \in Between(a, b)}
            /\ IsSortedByTimestamp(got)]_vars

\* A fetch returned both directions of a conversation stored out of order.
C3_Witness ==
    /\ lastReq.op = "getMessages"
    /\ resp.status = 200
    /\ Len(resp.body) = 2
    /\ resp.body[1].senderId # resp.body[2].senderId
    /\ resp.body[1].timestamp < resp.body[2].timestamp
    /\ resp.body[1].id > resp.body[2].id

\* C5: the mark-read of a fetch by reader about other sets read on exactly the
\* stored messages from other to reader that were unread, and changes nothing
\* else in the list.
C5_MarkReadFrame ==
    [][FetchServed =>
        /\ Len(messages') = Len(messages)
        /\ \A i \in 1..Len(messages) :
              messages'[i] =
                  IF /\ messages[i].senderId = lastReq'.userId
                     /\ messages[i].receiverId = lastReq'.session
                     /\ ~messages[i].read
                  THEN [messages[i] EXCEPT !.read = TRUE]
                  ELSE messages[i]]_vars

\* After a fetch by reader about other: one message from other is read, and an
\* unread message that the reader sent to other is still unread.
C5_Witness ==
    /\ lastReq.op = "getMessages"
    /\ resp.status = 200
    /\ Len(messages) = 2
    /\ messages[1].senderId = lastReq.userId
    /\ messages[1].receiverId = lastReq.session
    /\ messages[1].read
    /\ ~resp.body[1].read
    /\ messages[2].senderId = lastReq.session
    /\ messages[2].receiverId = lastReq.userId
    /\ lastReq.session # lastReq.userId
    /\ ~messages[2].read

\* C2: a message enters the store unread; its read flag is set only by a fetch
\* made by its receiver about its sender (no fetch by the sender or by a third
\* user sets it); that fetch leaves it read in the store, and a fetch of a
\* message already read returns it with read = TRUE.
C2_UnreadUntilReceiverFetches ==
    [][/\ \A i \in (Len(messages) + 1)..Len(messages') : ~messages'[i].read
       /\ \A i \in 1..Len(messages) :
             (~messages[i].read /\ messages'[i].read)
                 => /\ FetchServed
                    /\ lastReq'.session = messages[i].receiverId
                    /\ lastReq'.userId = messages[i].senderId
       /\ FetchServed =>
             \A i \in 1..Len(messages) :
                 (/\ messages[i].receiverId = lastReq'.session
                  /\ messages[i].senderId = lastReq'.userId)
                     => /\ messages'[i].read
                        /\ \E k \in 1..Len(resp'.body) :
                              /\ resp'.body[k].id = messages[i].id
                              /\ resp'.body[k].read = messages[i].read]_vars

\* The receiver's repeated fetch returned a message as read, while a message
\* that the receiver sent back, fetched here by its sender, is still unread.
C2_Witness ==
    /\ lastReq.op = "getMessages"
    /\ resp.status = 200
    /\ Len(messages) = 2
    /\ messages[1].receiverId = lastReq.session
    /\ messages[1].senderId = lastReq.userId
    /\ lastReq.session # lastReq.userId
    /\ resp.body[1].id = messages[1].id
    /\ resp.body[1].read
    /\ messages[2].senderId = lastReq.session
    /\ messages[2].receiverId = lastReq.userId
    /\ ~messages[2].read

\* C6: a send whose content is empty after trimming is rejected, and no stored
\* message has empty content.
C6_BlankContentRejected ==
    /\ \A i \in 1..Len(messages) : Truthy(messages[i].content)
    /\ (/\ lastReq.op = "sendMessage"
        /\ lastReq.session # NoSession
        /\ ~Truthy(Trim(lastReq.content)))
           => resp.status = 400

WithoutWhitespace(str) ==
    LET visible(c) == c \notin Whitespace IN SelectSeq(str, visible)

\* The stored users whose phone is the given string without its whitespace.
UsersWithPhoneOf(str) ==
    {i \in 1..Len(users) : users[i].phone = WithoutWhitespace(str)}

IdentityOf(u) == [id |-> u.id, phone |-> u.phone, name |-> u.name]

\* Normalizing twice is normalizing once, and what is left is the phone string
\* without its whitespace.
NormalizeIdempotent ==
    \A p \in PhoneInputs :
        /\ NormalizePhone(NormalizePhone(p)) = NormalizePhone(p)
        /\ NormalizePhone(p) = WithoutWhitespace(p)

\* C9: normalization is idempotent, and register, sign-in and add-contact-by-phone
\* all resolve a phone string to the stored user whose phone is that string
\* without its whitespace, however the whitespace is placed.
C9_WhitespaceInsensitiveLookup ==
    [][/\ NormalizeIdempotent
       /\ (/\ lastReq'.op = "register"
           /\ Truthy(lastReq'.phone) /\ Truthy(lastReq'.password)
           /\ Truthy(lastReq'.name)
           /\ PhoneRegexTest(WithoutWhitespace(lastReq'.phone)))
              => IF UsersWithPhoneOf(lastReq'.phone) # {}
                 THEN resp'.error = "User with this phone number already exists" /\ users' = users
                 ELSE /\ resp'.status = 201
                      /\ Len(users') = Len(users) + 1
                      /\ users'[Len(users')].phone = WithoutWhitespace(lastReq'.phone)
       /\ (lastReq'.op = "login" /\ Truthy(lastReq'.phone) /\ Truthy(lastReq'.password))
              => resp'.body \in
                    {<<>>} \cup {<<IdentityOf(users[i])>> : i \in UsersWithPhoneOf(lastReq'.phone)}
       /\ (lastReq'.op = "login" /\ Truthy(lastReq'.password))
              => \A i \in UsersWithPhoneOf(lastReq'.phone) :
                    users[i].password = Hash(lastReq'.password)
                        => resp'.body = <<IdentityOf(users[i])>>
       /\ (/\ lastReq'.op = "addContact"
           /\ lastReq'.session # NoSession /\ lastReq'.contactId = 0
           /\ Truthy(lastReq'.phone) /\ Truthy(lastReq'.name)
           /\ PhoneRegexTest(WithoutWhitespace(lastReq'.phone)))
              => IF UsersWithPhoneOf(lastReq'.phone) # {}
                 THEN /\ users' = users
                      /\ resp'.status = 201 =>
                            resp'.body[1].id \in
                                {users[i].id : i \in UsersWithPhoneOf(lastReq'.phone)}
                 ELSE /\ Len(users') = Len(users) + 1
                      /\ users'[Len(users')].phone = WithoutWhitespace(lastReq'.phone)]_vars

\* A sign-in with the phone written with spaces returned the stored user.
C9_Witness ==
    /\ lastReq.op = "login"
    /\ lastReq.phone = PhoneASpaced
    /\ resp.status = 200
    /\ resp.body[1].phone = PhoneA

\* The one response of a sign-in that is refused.
FailedLogin == [status |-> 401, error |-> "CredentialsSignin", body |-> <<>>]

\* C10: a sign-in returns an identity only for a stored user with the normalized
\* phone whose stored hash is the hash of the given password, and it is that
\* user's {id, phone, name}; a sign-in with an unknown phone and one with a
\* known phone and a wrong password get the same response and no session.
C10_LoginGeneric ==
    [][lastReq'.op = "login" =>
        /\ resp'.body # <<>> =>
              \E i \in UsersWithPhoneOf(lastReq'.phone) :
                  /\ users[i].password = Hash(lastReq'.password)
                  /\ resp'.body = <<IdentityOf(users[i])>>
        /\ UsersWithPhoneOf(lastReq'.phone) = {}
              => resp' = FailedLogin /\ sessions' = sessions
        /\ (\A i \in UsersWithPhoneOf(lastReq'.phone) :
                users[i].password # Hash(lastReq'.password))
              => resp' = FailedLogin /\ sessions' = sessions]_vars

\* A sign-in with the phone of a registered user and another password was
\* refused.
C10_Witness ==
    /\ lastReq.op = "login"
    /\ resp = FailedLogin
    /\ Truthy(lastReq.password)
    /\ \E i \in UsersWithPhoneOf(lastReq.phone) :
          /\ users[i].password # <<>>
          /\ users[i].password # Hash(lastReq.password)

\* C7: no two user records have the same phone, also when a register request
\* waits for its password hash while an add-contact-by-phone request for the
\* same normalized phone is served.
C7_UniquePhones ==
    \A i \in 1..Len(users), j \in 1..Len(users) :
        i # j => users[i].phone # users[j].phone

\* The stored users created by add-contact-by-phone and not registered: their
\* stored password is the empty string.
Placeholders == {i \in 1..Len(users) : users[i].password = <<>>}

\* C11: a sign-in for the phone of a user whose stored password is empty returns
\* no identity and issues no session, whatever password it carries (the empty
\* one included), and no session was ever issued for such a user.
C11_PlaceholderCannotLogin ==
    [][/\ (/\ lastReq'.op = "login"
           /\ UsersWithPhoneOf(lastReq'.phone) # {}
           /\ UsersWithPhoneOf(lastReq'.phone) \subseteq Placeholders)
              => resp' = FailedLogin /\ sessions' = sessions
       /\ \A i \in 1..Len(users') :
              users'[i].password = <<>> => users'[i].id \notin sessions']_vars

\* A sign-in with a non-empty password for the phone of a placeholder was refused.
C11_Witness ==
    /\ lastReq.op = "login"
    /\ Truthy(lastReq.password)
    /\ UsersWithPhoneOf(lastReq.phone) # {}
    /\ UsersWithPhoneOf(lastReq.phone) \subseteq Placeholders
    /\ resp = FailedLogin

\* C12: a register request with a password, a name and the phone of a
\* placeholder is accepted (201) and gives that user the hash of the password,
\* so that a later sign-in with this password succeeds.
C12_PlaceholderOwnerCanRegister ==
    [][(/\ lastReq'.op = "register"
        /\ Truthy(lastReq'.password) /\ Truthy(lastReq'.name)
        /\ UsersWithPhoneOf(lastReq'.phone) # {}
        /\ UsersWithPhoneOf(lastReq'.phone) \subseteq Placeholders)
          => /\ resp'.status = 201
             /\ \E i \in 1..Len(users') :
                   /\ users'[i].phone = WithoutWhitespace(lastReq'.phone)
                   /\ users'[i].password = Hash(lastReq'.password)]_vars

\* The number of edges from owner to target in a contacts collection.
EdgesTo(cs, owner, target) ==
    Cardinality({i \in 1..Len(getUserContacts(cs, owner)) :
                    getUserContacts(cs, owner)[i].contactId = target})

\* The ids of the stored users.
UserIds == {users[i].id : i \in 1..Len(users)}

\* Every (owner, target) pair other than the given one has the edges it had.
OtherEdgesKept(owner, target) ==
    \A o \in UserIds, t \in UserIds :
        <<o, t>> # <<owner, target>> => EdgesTo(contacts', o, t) = EdgesTo(contacts, o, t)

\* C13: add-contact by id answers 404 for the id of no user and 400 for the
\* caller's own id, leaving contacts unchanged; otherwise it answers 201 and the
\* caller then has exactly one edge to the target, whether or not the edge was
\* there before, and no other edge is added or removed.
C13_AddByIdIdempotent ==
    [][(/\ lastReq'.op = "addContact"
        /\ lastReq'.session # NoSession
        /\ lastReq'.contactId # 0)
          => IF lastReq'.contactId \notin UserIds
             THEN resp'.status = 404 /\ contacts' = contacts
             ELSE IF lastReq'.contactId = lastReq'.session
             THEN resp'.status = 400 /\ contacts' = contacts
             ELSE /\ resp'.status = 201
                  /\ EdgesTo(contacts', lastReq'.session, lastReq'.contactId) = 1
                  /\ EdgesTo(contacts, lastReq'.session, lastReq'.contactId) = 1
                        => contacts' = contacts
                  /\ OtherEdgesKept(lastReq'.session, lastReq'.contactId)]_vars

\* An add by id was accepted for a caller who has another contact already.
C13_Witness ==
    /\ lastReq.op = "addContact"
    /\ lastReq.contactId # 0
    /\ resp.status = 201
    /\ EdgesTo(contacts, lastReq.session, lastReq.contactId) = 1
    /\ Len(getUserContacts(contacts, lastReq.session)) >= 2

\* C14: add-contact by a valid phone (with a name) that belongs to no user adds
\* one user record, with that normalized phone, and one edge from the caller to
\* it; when the phone belongs to a user the caller already has as a contact, the
\* request is refused as already a contact and adds no user and no edge.
C14_AddByPhoneCreatesOnce ==
    [][(/\ lastReq'.op = "addContact"
        /\ lastReq'.session # NoSession
        /\ lastReq'.contactId = 0
        /\ Truthy(lastReq'.phone) /\ Truthy(lastReq'.name)
        /\ PhoneRegexTest(WithoutWhitespace(lastReq'.phone)))
          => IF UsersWithPhoneOf(lastReq'.phone) = {}
             THEN /\ resp'.status = 201
                  /\ Len(users') = Len(users) + 1
                  /\ SubSeq(users', 1, Len(users)) = users
                  /\ users'[Len(users')].phone = WithoutWhitespace(lastReq'.phone)
                  /\ users'[Len(users')].id \notin UserIds
                  /\ EdgesTo(contacts', lastReq'.session, users'[Len(users')].id) = 1
                  /\ Len(getUserContacts(contacts', lastReq'.session))
                        = Len(getUserContacts(contacts, lastReq'.session)) + 1
                  /\ OtherEdgesKept(lastReq'.session, users'[Len(users')].id)
             ELSE /\ users' = users
                  /\ \A i \in UsersWithPhoneOf(lastReq'.phone) :
                        EdgesTo(contacts, lastReq'.session, users[i].id) >= 1
                            => /\ resp'.status = 400
                               /\ resp'.error = "This contact is already in your contact list"
                               /\ contacts' = contacts]_vars

\* The repeat of an add by phone was refused: the user created by the first call
\* is a placeholder, and the caller has one edge to it.
C14_Witness ==
    /\ lastReq.op = "addContact"
    /\ lastReq.contactId = 0
    /\ resp.error = "This contact is already in your contact list"
    /\ \E i \in UsersWithPhoneOf(lastReq.phone) :
          /\ i \in Placeholders
          /\ EdgesTo(contacts, lastReq.session, users[i].id) = 1

\* C15: in every owner's contact list each contactId appears at most once.
C15_UniqueEdges ==
    \A o \in DOMAIN contacts :
        \A i \in 1..Len(contacts[o]), j \in 1..Len(contacts[o]) :
            i # j => contacts[o][i].contactId # contacts[o][j].contactId

\* Two owners have contact lists, one of them with three contacts, added by id
\* and by phone.
C15_Witness ==
    /\ \E o \in DOMAIN contacts : Len(contacts[o]) = 3
    /\ Cardinality({o \in DOMAIN contacts : contacts[o] # <<>>}) >= 2
    /\ Placeholders # {}

\* Two characters are the same letter, case aside.
SameLetter(c, d) ==
    \/ c = d
    \/ \E pair \in {<<"A", "a">>, <<"B", "b">>, <<"L", "l">>, <<"O", "o">>} :
          {c, d} = {pair[1], pair[2]}

\* part occurs in str at some offset; with fold, letters are compared case aside.
OccursIn(part, str, fold) ==
    \E k \in 0..Len(str) :
        /\ k + Len(part) <= Len(str)
        /\ \A i \in 1..Len(part) :
              IF fold THEN SameLetter(part[i], str[k + i]) ELSE part[i] = str[k + i]

\* The users a search by caller for query is to return.
SearchExpected(caller, query) ==
    {i \in 1..Len(users) :
        /\ users[i].id # caller
        /\ EdgesTo(contacts, caller, users[i].id) = 0
        /\ \/ OccursIn(query, users[i].name, TRUE)
           \/ OccursIn(WithoutWhitespace(query), users[i].phone, FALSE)}

\* C16: a search by a signed-in caller returns the {id, name, phone} of exactly
\* the users that are not the caller, are not in the caller's contact list, and
\* whose name contains the query case-insensitively or whose phone contains the
\* query without its whitespace; each such user once, in stored order.
C16_SearchExact ==
    [][(lastReq'.op = "searchUsers" /\ lastReq'.session # NoSession)
          => LET expected == SearchExpected(lastReq'.session, lastReq'.q)
                 found == resp'.body
             IN  /\ resp'.status = 200
                 /\ Len(found) = Cardinality(expected)
                 /\ \A i \in expected :
                       \E k \in 1..Len(found) : found[k] = IdentityOf(users[i])
                 /\ \A k \in 1..Len(found) :
                       /\ found[k].id # lastReq'.session
                       /\ EdgesTo(contacts, lastReq'.session, found[k].id) = 0]_vars

\* A search whose query matches a contact of the caller by name and another
\* user by phone returned some users and left the contact and the caller out.
C16_Witness ==
    /\ lastReq.op = "searchUsers"
    /\ lastReq.session # NoSession
    /\ Len(resp.body) >= 1
    /\ Len(resp.body) < Len(users) - 1
    /\ \E i \in 1..Len(users) :
          /\ EdgesTo(contacts, lastReq.session, users[i].id) = 1
          /\ OccursIn(lastReq.q, users[i].name, TRUE)

\* The rule of the claim: seen less than five minutes ago; never seen is offline.
SeenRecently(u, t) ==
    u.lastSeen # NoTime /\ t - u.lastSeen < 5

\* C17: a status query reports, for each requested id of a stored user, online
\* exactly when the user was last seen less than 5 minutes before now (4 minutes
\* ago: online; 5 or 6 minutes ago, or never seen: offline), and has no entry
\* for other ids; the contact list reports isOnline by the same rule.
C17_OnlineWithinFiveMinutes ==
    [][/\ (lastReq'.op = "statusQuery" /\ lastReq'.session # NoSession /\ now' = now)
            => LET asked == {lastReq'.userIds[k] : k \in 1..Len(lastReq'.userIds)}
                   statusMap == resp'.body[1]
               IN  /\ DOMAIN statusMap = asked \cap UserIds
                   /\ \A i \in 1..Len(users) :
                         users[i].id \in asked =>
                            /\ statusMap[users[i].id].isOnline = SeenRecently(users[i], now)
                            /\ users[i].lastSeen = now - 4
                                  => statusMap[users[i].id].isOnline
                            /\ users[i].lastSeen \in {now - 5, now - 6, NoTime}
                                  => ~statusMap[users[i].id].isOnline
       /\ (lastReq'.op = "listContacts" /\ lastReq'.session # NoSession /\ now' = now)
            => \A k \in 1..Len(resp'.body) :
                  \E i \in 1..Len(users) :
                     /\ users[i].id = resp'.body[k].id
                     /\ resp'.body[k].isOnline = SeenRecently(users[i], now)]_vars

\* A status query found one user seen 4 minutes ago online, one seen exactly 5
\* minutes ago offline and one never seen offline.
C17_Witness ==
    /\ lastReq.op = "statusQuery"
    /\ resp.status = 200
    /\ Len(lastReq.userIds) = 4
    /\ \E i, j, k \in 1..Len(users) :
          /\ users[i].lastSeen = now - 4 /\ resp.body[1][users[i].id].isOnline
          /\ users[j].lastSeen = now - 5 /\ ~resp.body[1][users[j].id].isOnline
          /\ users[k].lastSeen = NoTime /\ ~resp.body[1][users[k].id].isOnline

\* C18: a heartbeat by a signed-in user sets that user's lastSeen to now and
\* leaves the user's id, phone, password, name, status and profilePicture, every
\* other user record, and contacts and messages as they were.
C18_HeartbeatFrame ==
    [][(lastReq'.op = "heartbeat" /\ lastReq'.session # NoSession /\ now' = now)
          => /\ Len(users') = Len(users)
             /\ contacts' = contacts
             /\ messages' = messages
             /\ \A i \in 1..Len(users) :
                   IF users[i].id = lastReq'.session
                   THEN /\ users'[i].lastSeen = now
                        /\ \A f \in {"id", "phone", "password", "name", "status",
                                     "profilePicture"} : users'[i][f] = users[i][f]
                   ELSE users'[i] = users[i]]_vars

\* A heartbeat moved the lastSeen of a user with a status and a picture, while
\* the other signed-in user was last seen earlier.
C18_Witness ==
    /\ lastReq.op = "heartbeat"
    /\ lastReq.session = 2
    /\ users[2].lastSeen = now
    /\ users[2].status = "busy"
    /\ users[1].lastSeen # NoTime
    /\ users[1].lastSeen < now

\* The value a profile update is to leave in field f of the caller's record.
AfterProfileUpdate(u, req, f) ==
    IF f \in {"name", "status", "profilePicture"} /\ req[f] # <<>>
    THEN req[f][1] ELSE u[f]

C20_UnwritableDegrades ==
    [][/\ "users" \in unwritable => users' = users
       /\ "contacts" \in unwritable => contacts' = contacts
       /\ "messages" \in unwritable => messages' = messages
       /\ (/\ lastReq'.op = "register" /\ "users" \in unwritable
           /\ Truthy(lastReq'.password) /\ Truthy(lastReq'.name)
           /\ PhoneRegexTest(WithoutWhitespace(lastReq'.phone))
           /\ UsersWithPhoneOf(lastReq'.phone) = {})
             => /\ resp'.status = 201
                /\ resp'.body[1].phone = WithoutWhitespace(lastReq'.phone)
                /\ resp'.body[1].name = lastReq'.name
       /\ (/\ lastReq'.op = "sendMessage" /\ "messages" \in unwritable
           /\ lastReq'.session # NoSession /\ lastReq'.receiverId # 0
           /\ Truthy(lastReq'.content))
             => /\ resp'.status = 201
                /\ resp'.body[1].senderId = lastReq'.session
                /\ resp'.body[1].receiverId = lastReq'.receiverId
                /\ resp'.body[1].content = Trim(lastReq'.content)
                /\ ~resp'.body[1].read
       /\ (/\ lastReq'.op = "getMessages" /\ "messages" \in unwritable
           /\ lastReq'.session # NoSession /\ lastReq'.userId # 0)
             => resp'.status = 200
       /\ (/\ lastReq'.op = "addContact" /\ "contacts" \in unwritable
           /\ lastReq'.session # NoSession
           /\ lastReq'.contactId \in UserIds \ {lastReq'.session})
             => resp'.status = 201 /\ resp'.body[1].id = lastReq'.contactId
       /\ (/\ lastReq'.op = "addContact" /\ "users" \in unwritable
           /\ lastReq'.session # NoSession /\ lastReq'.contactId = 0
           /\ Truthy(lastReq'.phone) /\ Truthy(lastReq'.name)
           /\ PhoneRegexTest(WithoutWhitespace(lastReq'.phone))
           /\ UsersWithPhoneOf(lastReq'.phone) = {})
             => /\ resp'.status = 201
                /\ resp'.body[1].phone = WithoutWhitespace(lastReq'.phone)
       /\ (/\ lastReq'.op = "heartbeat" /\ "users" \in unwritable
           /\ lastReq'.session # NoSession)
             => resp'.status = 200 /\ resp'.body = <<[success |-> TRUE]>>
       /\ (/\ lastReq'.op = "updateProfile" /\ "users" \in unwritable
           /\ lastReq'.session \in UserIds)
             => /\ resp'.status = 200
                /\ \A i \in 1..Len(users) :
                      users[i].id = lastReq'.session =>
                         \A f \in {"name", "status", "profilePicture"} :
                            resp'.body[1][f] = AfterProfileUpdate(users[i], lastReq', f)]_vars

\* A send was answered 201 with the new message while messages.json was
\* unwritable, and the stored list is still empty.
C20_Witness ==
    /\ "messages" \in unwritable
    /\ lastReq.op = "sendMessage"
    /\ resp.status = 201
    /\ resp.body[1].content = <<"h", "i">>
    /\ messages = <<>>

StoredIds(ms) == {ms[i].id : i \in 1..Len(ms)}

\* C21: when two writers of the messages file each load the whole list and save
\* it in a later step, a save stores what its writer loaded plus the writer's
\* own change and is answered as a success: every message another writer stored
\* since that load is gone from the file.
C21_LaterWriteWins ==
    [][\A k \in 1..Len(pending) :
          /\ SendMessageSave(k)
                => /\ resp'.status = 201
                   /\ StoredIds(messages') =
                         StoredIds(pending[k].loaded) \cup {resp'.body[1].id}
          /\ GetMessagesMarkSave(k)
                => /\ resp'.status = 200
                   /\ StoredIds(messages') = StoredIds(pending[k].loaded)]_vars

\* Two sends were each answered 201 and the file holds only the message of the
\* one that saved last.
C21_Witness ==
    /\ pending = <<>>
    /\ ids.msg = 2
    /\ lastReq.op = "sendMessage" /\ resp.status = 201
    /\ StoredIds(messages) = {2}

ReadIds(ms) == {ms[i].id : i \in {j \in 1..Len(ms) : ms[j].read}}

\* C26: a message is stored with read=true only by a conversation fetch of its
\* receiver whose response includes it, also when a send from the other user is
\* stored between the fetch's conversation load and the load of its mark-read
\* step.
C26_ReadOnlyIfReturned ==
    [][\A k \in 1..Len(pending) :
          GetMessagesMarkSave(k)
             => ReadIds(messages') \ ReadIds(messages) \subseteq StoredIds(resp'.body)]_vars

\* C25: no response carries the password field of a user record: the bodies of
\* register, profile, user-by-id, contact listing, search and add-contact (by id
\* and by phone) hold user data without it.
C25_NoPasswordInResponses ==
    \A i \in 1..Len(resp.body) : "password" \notin DOMAIN resp.body[i]

\* C28: every stored message's senderId is the id of an existing user and its
\* receiverId is the id of an existing user other than the sender.
C28_MessageEndpointsExist ==
    \A i \in 1..Len(messages) :
        /\ messages[i].senderId \in UserIds
        /\ messages[i].receiverId \in UserIds \ {messages[i].senderId}

\* C29: a load that fails and yields the empty default loses no stored record:
\* the users, contact edges and messages stored before a request are stored
\* after it, whichever loads of that request failed.
C29_FailedLoadLosesNothing ==
    [][/\ StoredIds(users) \subseteq StoredIds(users')
       /\ StoredIds(messages) \subseteq StoredIds(messages')
       /\ \A o \in DOMAIN contacts, t \in UserIds :
             EdgesTo(contacts, o, t) > 0 => EdgesTo(contacts', o, t) > 0]_vars

PollTimers(c) == {t \in c.timers : t.kind = "poll"}

C23_StatusTickAsksForAllContacts ==
    [][(/\ client'.event.kind = "status"
        /\ client.mounted /\ client.session # NoSession
        /\ client.contacts # <<>>)
          => client'.event.userIds = ContactIds(client.contacts)]_vars

\* C24: a fetch of a conversation that has been called is not cancelled by a
\* change of the selected contact, and the response that arrives becomes the
\* message list whichever contact is selected and whichever other responses are
\* still awaited.
C24_ResponsesAppliedUnguarded ==
    [][/\ client'.selectedContact # client.selectedContact
             => /\ client'.inFlight = client.inFlight
                /\ SubSeq(client'.calls, 1, Len(client.calls)) = client.calls
       /\ \A k \in 1..Len(client.inFlight) :
             (/\ client'.inFlight = Without(client.inFlight, k)
              /\ client.inFlight[k].fn = "fetchMessages"
              /\ client.inFlight[k].status = 200)
                => client'.messages = client.inFlight[k].body]_vars

\* Contact 3 is selected and its conversation (empty) has been fetched and
\* applied, nothing is awaited, and the list shown is the conversation with
\* contact 2: the response of the earlier fetch was applied last.
C24_Witness ==
    /\ client.selectedContact = 3
    /\ client.calls = <<>> /\ client.inFlight = <<>>
    /\ client.messages # <<>>
    /\ \A i \in 1..Len(client.messages) : client.messages[i].senderId = 2
    /\ getConversationMessages(messages, 1, 3) = <<>>

\* The stored messages a fetch by userId of the conversation with otherUserId
\* marks read.
MarkedBy(ms, userId, otherUserId) ==
    {i \in 1..Len(ms) : MarkOne(ms[i], userId, otherUserId) # ms[i]}

\* C27: the response of a conversation fetch is the conversation as stored
\* before the fetch: a message the fetch marks read is in it with read=false,
\* and the unread count the view computes from the response for the open
\* contact is the number of those messages, until another response is applied.
C27_ResponseIsPreMark ==
    [][/\ (/\ Len(client'.calls) < Len(client.calls)
           /\ Head(client.calls).fn = "fetchMessages"
           /\ resp'.status = 200)
             => /\ resp'.body = getConversationMessages(messages, lastReq'.session,
                                                        lastReq'.userId)
                /\ \A i \in MarkedBy(messages, lastReq'.session, lastReq'.userId) :
                      /\ messages'[i].read
                      /\ \E j \in 1..Len(resp'.body) :
                            resp'.body[j].id = messages[i].id /\ ~resp'.body[j].read
       /\ \A k \in 1..Len(client.inFlight) :
             (/\ client'.inFlight = Without(client.inFlight, k)
              /\ client.inFlight[k].fn = "fetchMessages"
              /\ client.inFlight[k].status = 200)
                => getUnreadCount(client'.messages, 1, client.selectedContact)
                      = getUnreadCount(client.inFlight[k].body, 1, client.selectedContact)
       /\ client'.inFlight = client.inFlight => client'.messages = client.messages]_vars

\* The view shows one unread message for the open contact 2 although the message
\* is stored read, and no fetch is awaited.
C27_Witness ==
    /\ client.selectedContact = 2
    /\ client.calls = <<>> /\ client.inFlight = <<>>
    /\ getUnreadCount(client.messages, 1, 2) = 1
    /\ Len(messages) = 1 /\ messages[1].read

\* What the last presence answer says of user 1: the status map's entry, or the
\* entry of the contact listing.
ReportedOnline ==
    IF lastReq.op = "statusQuery" THEN resp.body[1][1].isOnline
    ELSE \E i \in 1..Len(resp.body) : resp.body[i].id = 1 /\ resp.body[i].isOnline

\* C30: while user 1's view sends a heartbeat every 30 seconds and each one is
\* stored, every status query and every contact listing reports user 1 online;
\* once the heartbeats have stopped, every status query made five minutes or
\* more after the last stored heartbeat reports user 1 offline.
C30_OnlineWhileBeating ==
    [][(/\ client' = client /\ now' = now
        /\ lastReq'.op \in {"statusQuery", "listContacts"}
        /\ users[1].lastSeen # NoTime)
          => /\ HeartbeatTimers(client) # {} => ReportedOnline'
             /\ (/\ HeartbeatTimers(client) = {}
                 /\ lastReq'.op = "statusQuery"
                 /\ now - users[1].lastSeen >= OFFLINE_THRESHOLD)
                   => ~ReportedOnline']_vars

\* Heartbeats were stored over more than a minute, the view was closed, and a
\* status query made exactly five minutes after the last stored heartbeat says
\* offline.
C30_Witness ==
    /\ ~client.mounted
    /\ users[1].lastSeen > StartTime
    /\ now = users[1].lastSeen + OFFLINE_THRESHOLD
    /\ lastReq.op = "statusQuery"
    /\ ~resp.body[1][1].isOnline

====
